---- MODULE Spec2Model ----
(***************************************************************************)
(* SolapiMessageService (src/src/requests/messageRequest.ts): the request  *)
(* classes and the service whose public operations each build a            *)
(* RequestConfig and a body and hand them to defaultFetcher.               *)
(*                                                                         *)
(* An invocation of a public operation is a little process: the            *)
(* synchronous prefix of the async method runs in one step (up to its      *)
(* first await), every settlement of an awaited fetch runs the method's    *)
(* continuation in one step.  The HTTP server is the environment: it       *)
(* settles a pending fetch with a body or with an error.                   *)
(***************************************************************************)
EXTENDS Integers, Sequences, FiniteSets

VARIABLES
    authInfo,   \* SolapiMessageService.authInfo
    pc,         \* per invocation: where the async method is suspended
    op,         \* per invocation: the public operation that was called
    local,      \* per invocation: the method's parameters and local variables
    calls,      \* per invocation: the defaultFetcher calls it made, with their settlement
    result      \* per invocation: the promise the method returned

vars == <<authInfo, pc, op, local, calls, result>>

-----------------------------------------------------------------------------
(* Bounds *)

\* number of invocations the caller may have in flight on one instance
MaxInv == 2
\* instants a date input may denote
MaxInstant == 2
\* largest groupInfo.count.total / failedMessageList length of a send response
MaxTotal == 3

Invocations == 1..MaxInv
Instants == 1..MaxInstant

-----------------------------------------------------------------------------
(* JavaScript values *)

Undefined == [t |-> "undefined"]
Bool(b) == [t |-> "boolean", b |-> b]
Str(s) == [t |-> "string", s |-> s]
Num(n) == [t |-> "number", n |-> n]
\* a string holding a date in some notation, denoting instant at
DateStr(fmt, at) == [t |-> "string", fmt |-> fmt, at |-> at]
MalformedDateStr == [t |-> "string", fmt |-> "malformed"]
DateObj(at) == [t |-> "Date", at |-> at]

DateStrings ==
    {DateStr(f, a) : f \in {"iso8601", "bare"}, a \in Instants} \cup {MalformedDateStr}
DateObjects == {DateObj(a) : a \in Instants}
DateInputs == DateStrings \cup DateObjects

GroupIds == {"G1", "G2"}
Credentials == {[apiKey |-> "key1", apiSecret |-> "secret1"],
                [apiKey |-> "key2", apiSecret |-> "secret2"]}

baseUrl == "https://api.solapi.com"
defaultAgent == [sdkVersion |-> "Config.version", osPlatform |-> "platform | version"]

NoId == "none"
NoBody == [t |-> "nobody"]
NoQuery == [t |-> "noquery"]
\* the object literal {}
EmptyObject == [f \in {} |-> Undefined]

-----------------------------------------------------------------------------
(* Date normalisation *)

\* stringDateTransfer throws InvalidDateError on a string it cannot parse
InvalidDateError == [name |-> "InvalidDateError"]
CanTransfer(v) ==
    \/ v.t = "Date"
    \/ v.t = "string" /\ v.fmt \in {"iso8601", "bare"}

\* a Date passes through; a parseable string becomes the Date of its instant
stringDateTransfer(v) ==
    IF v.t = "Date" THEN v ELSE DateObj(v.at)

\* date-fns formatISO: a Date to its ISO-8601 string
formatISO(d) == DateStr("iso8601", d.at)

IsISO(v) == v.t = "string" /\ v.fmt = "iso8601"

-----------------------------------------------------------------------------
(* Request classes *)

Truthy(v) == v.t = "string" /\ v.s # ""

\* DefaultMessageRequest's constructor: agent = defaultAgent, allowDuplicates = false,
\* appId left unset
DefaultMessageRequest ==
    [agent |-> defaultAgent, allowDuplicates |-> Bool(FALSE), appId |-> Undefined]

SingleMessageSendingRequest(message, allowDuplicates, appId) ==
    [agent |-> DefaultMessageRequest.agent,
     allowDuplicates |-> IF allowDuplicates.t = "boolean" THEN allowDuplicates
                         ELSE DefaultMessageRequest.allowDuplicates,
     appId |-> IF Truthy(appId) THEN appId ELSE DefaultMessageRequest.appId,
     message |-> message]

MultipleMessageSendingRequest(messages, allowDuplicates, appId) ==
    [agent |-> DefaultMessageRequest.agent,
     allowDuplicates |-> IF allowDuplicates.t = "boolean" THEN allowDuplicates
                         ELSE DefaultMessageRequest.allowDuplicates,
     appId |-> IF Truthy(appId) THEN appId ELSE DefaultMessageRequest.appId,
     messages |-> messages]

\* the class is imported by the service and defined elsewhere: the four constructor
\* arguments as passed
MultipleDetailMessageSendingRequest(messages, allowDuplicates, appId, scheduledDate) ==
    [allowDuplicates |-> allowDuplicates,
     appId |-> appId,
     messages |-> messages,
     scheduledDate |-> scheduledDate]

GroupMessageAddRequest(messages) == [messages |-> messages]

DateFields == {"startDate", "endDate", "dateCreated", "dateUpdated"}

\* dateUpdated copied like the non-date fields
GetMessagesRequest_rawUpdated(data) ==
    [f \in DOMAIN data |->
        IF f \in DateFields \ {"dateUpdated"}
        THEN formatISO(stringDateTransfer(data[f])) ELSE data[f]]

\* GetMessagesRequest's constructor: the four date fields are normalised, the ten
\* others copied
GetMessagesRequest(data) ==
    [f \in DOMAIN data |->
        IF f \in DateFields THEN formatISO(stringDateTransfer(data[f])) ELSE data[f]]
GetMessagesRequestThrows(data) ==
    \E f \in DateFields : ~CanTransfer(data[f])

GetStatisticsRequest(data) ==
    [startDate |-> formatISO(stringDateTransfer(data.startDate)),
     endDate |-> formatISO(stringDateTransfer(data.endDate)),
     masterAccountId |-> data.masterAccountId]
GetStatisticsRequestThrows(data) ==
    ~CanTransfer(data.startDate) \/ ~CanTransfer(data.endDate)

\* a default parameter value applies when the argument is undefined
DefaultParam(v, d) == IF v = Undefined THEN d ELSE v
\* v ?? d
Nullish(v, d) == IF v.t \in {"undefined", "null"} THEN d ELSE v

-----------------------------------------------------------------------------
(* The fetch layer *)

Pending == [status |-> "pending"]
Ok(body) == [status |-> "ok", body |-> body]
Failed(e) == [status |-> "error", error |-> e]

RequestConfig(method, path, id) ==
    [method |-> method, url |-> [path |-> path, id |-> id, base |-> baseUrl, query |-> NoQuery]]

\* queryParameterGenerator(url, data): the fields of data that are present become the
\* query string; an absent data leaves the url as it is
queryParameterGenerator(url, data) ==
    IF data = Undefined THEN url
    ELSE [url EXCEPT !.query =
            [f \in {g \in DOMAIN data : data[g] # Undefined} |-> data[f]]]

\* defaultFetcher(authInfo, requestConfig, data): one HTTP request, pending until the
\* server answers
defaultFetcher(auth, requestConfig, data) ==
    [body |-> data, auth |-> auth, config |-> requestConfig, res |-> Pending]

HttpErrors == {[name |-> "HttpError", status |-> s] : s \in {400, 500}}

FailedList(n) == [k \in 1..n |-> [index |-> k]]
GroupMessageResponses == {[groupId |-> g] : g \in GroupIds}
DetailGroupMessageResponses ==
    {[groupInfo |-> [count |-> [total |-> c[1], registeredFailed |-> c[2]]],
      failedMessageList |-> FailedList(n)] :
        c \in {d \in (0..MaxTotal) \X (0..MaxTotal) : d[2] <= d[1]}, n \in 0..MaxTotal}

\* what the server may answer to an operation's request
ResponseBodies(o) ==
    CASE o = "send" -> DetailGroupMessageResponses
      [] o \in {"createGroup", "sendMany", "sendGroup", "reserveGroup",
                "removeReservationToGroup", "removeGroup"} -> GroupMessageResponses
      [] OTHER -> {[body |-> o]}

MessageNotReceivedError(failedMessageList) ==
    [name |-> "MessageNotReceivedError", failedMessageList |-> failedMessageList]

PendingResult == [state |-> "pending"]
Resolved(v) == [state |-> "resolved", value |-> v]
Rejected(e) == [error |-> e, state |-> "rejected"]

-----------------------------------------------------------------------------
(* The calls the operations make *)

createGroupCall(auth, allowDuplicates, appId) ==
    defaultFetcher(auth, RequestConfig("POST", "/messages/v4/groups", NoId),
        [sdkVersion |-> defaultAgent.sdkVersion,
         osPlatform |-> defaultAgent.osPlatform,
         allowDuplicates |-> Nullish(allowDuplicates, Bool(FALSE)),
         appId |-> appId])

addMessagesToGroupConfig_post(groupId) ==
    RequestConfig("POST", "/messages/v4/groups/{id}/messages", groupId)
addMessagesToGroupConfig(groupId) ==
    RequestConfig("PUT", "/messages/v4/groups/{id}/messages", groupId)

addMessagesToGroupCall(auth, groupId, messages) ==
    defaultFetcher(auth, addMessagesToGroupConfig(groupId), GroupMessageAddRequest(messages))

\* reserveGroup takes a Date and formats it
reserveGroupCall(auth, groupId, scheduledDate) ==
    defaultFetcher(auth, RequestConfig("POST", "/messages/v4/groups/{id}/schedule", groupId),
        [scheduledDate |-> formatISO(scheduledDate)])

NoLocal == [t |-> "nolocal"]

\* the synchronous prefix of a method that makes one call and returns its promise
Start(i, o, params, c) ==
    /\ pc[i] = "idle"
    /\ op' = [op EXCEPT ![i] = o]
    /\ local' = [local EXCEPT ![i] = params]
    /\ calls' = [calls EXCEPT ![i] = <<c>>]
    /\ pc' = [pc EXCEPT ![i] = "awaitFetch"]
    /\ result' = [result EXCEPT ![i] = PendingResult]
    /\ UNCHANGED authInfo

\* a method whose synchronous prefix throws: the promise is rejected, nothing is sent
Throw(i, o, params, e) ==
    /\ pc[i] = "idle"
    /\ op' = [op EXCEPT ![i] = o]
    /\ local' = [local EXCEPT ![i] = params]
    /\ calls' = [calls EXCEPT ![i] = <<>>]
    /\ pc' = [pc EXCEPT ![i] = "done"]
    /\ result' = [result EXCEPT ![i] = Rejected(e)]
    /\ UNCHANGED authInfo

\* the pending call of invocation i is settled with r
Settled(cs, r) == [cs EXCEPT ![Len(cs)].res = r]

-----------------------------------------------------------------------------
(* Inputs of the caller *)

Msg(id) == [t |-> "Message", id |-> id]
Arr(items) == [t |-> "Array", items |-> items]
MessageArrays == {Arr(<<Msg("m1")>>), Arr(<<Msg("m1"), Msg("m2")>>)}
SendInputs == {Msg("m1")} \cup MessageArrays
AllowDuplicatesInputs == {Undefined, Bool(TRUE), Bool(FALSE)}
AppIdInputs == {Undefined, Str(""), Str("app")}
MessageIdLists == {Arr(<<"M1">>)}
GetGroupMessagesInputs == {Undefined, [startKey |-> Undefined, limit |-> Num(10)]}
GetGroupsInputs ==
    {Undefined} \cup
    {[startDate |-> d[1], endDate |-> d[2], startKey |-> Undefined, limit |-> l] :
        l \in {Undefined, Num(10)},
        d \in (DateStrings \cup {Undefined}) \X (DateStrings \cup {Undefined})}
GetMessagesInputs ==
    {Undefined} \cup
    {[startDate |-> d[1],
      endDate |-> d[2],
      groupId |-> Undefined,
      startKey |-> Undefined,
      limit |-> Num(10),
      dateType |-> Str("CREATED"),
      messageId |-> Undefined,
      messageIds |-> Undefined,
      to |-> Undefined,
      from |-> Undefined,
      type |-> Str("SMS"),
      statusCode |-> Undefined,
      dateCreated |-> d[3],
      dateUpdated |-> d[4]] :
        d \in DateStrings \X DateStrings \X DateStrings \X DateStrings}
GetStatisticsInputs ==
    {Undefined} \cup
    {[startDate |-> d[1], endDate |-> d[2], masterAccountId |-> Undefined] :
        d \in DateInputs \X DateInputs}
FileTypes == {"KAKAO", "MMS", "DOCUMENT", "RCS"}

-----------------------------------------------------------------------------
(* Public operations: the synchronous prefix of each method *)

send(i, messages, scheduledDate, allowDuplicates, appId) ==
    LET msgs == IF messages.t # "Array" THEN Arr(<<messages>>) ELSE messages
        parameter == MultipleDetailMessageSendingRequest(
                        msgs, DefaultParam(allowDuplicates, Bool(FALSE)), appId, scheduledDate)
    IN  Start(i, "send",
              [allowDuplicates |-> allowDuplicates,
               appId |-> appId,
               messages |-> messages,
               scheduledDate |-> scheduledDate],
              defaultFetcher(authInfo,
                  RequestConfig("POST", "/messages/v4/send-many/detail", NoId), parameter))

sendOne(i, message, appId) ==
    Start(i, "sendOne", [appId |-> appId, message |-> message],
          defaultFetcher(authInfo, RequestConfig("POST", "/messages/v4/send", NoId),
              SingleMessageSendingRequest(message, Bool(FALSE), appId)))

sendMany(i, messages, allowDuplicates, appId) ==
    Start(i, "sendMany",
          [allowDuplicates |-> allowDuplicates, appId |-> appId, messages |-> messages],
          defaultFetcher(authInfo, RequestConfig("POST", "/messages/v4/send-many", NoId),
              MultipleMessageSendingRequest(
                  messages, DefaultParam(allowDuplicates, Bool(FALSE)), appId)))

createGroup(i, allowDuplicates, appId) ==
    Start(i, "createGroup", [allowDuplicates |-> allowDuplicates, appId |-> appId],
          createGroupCall(authInfo, allowDuplicates, appId))

addMessagesToGroup(i, groupId, messages) ==
    Start(i, "addMessagesToGroup", [messages |-> messages, groupId |-> groupId],
          addMessagesToGroupCall(authInfo, groupId, messages))

sendGroup(i, groupId) ==
    Start(i, "sendGroup", [groupId |-> groupId],
          defaultFetcher(authInfo,
              RequestConfig("POST", "/messages/v4/groups/{id}/send", groupId), NoBody))

reserveGroup(i, groupId, scheduledDate) ==
    Start(i, "reserveGroup", [scheduledDate |-> scheduledDate, groupId |-> groupId],
          reserveGroupCall(authInfo, groupId, scheduledDate))

getGroups(i, data) ==
    Start(i, "getGroups", [data |-> data],
          defaultFetcher(authInfo,
              [RequestConfig("GET", "/messages/v4/groups", NoId) EXCEPT
                  !.url = queryParameterGenerator(@, data)],
              NoBody))

getGroupMessages(i, groupId, data) ==
    Start(i, "getGroupMessages", [data |-> data, groupId |-> groupId],
          defaultFetcher(authInfo,
              [RequestConfig("GET", "/messages/v4/groups/{id}/messages", groupId) EXCEPT
                  !.url = queryParameterGenerator(@, data)],
              NoBody))

removeGroupMessages(i, groupId, messageIds) ==
    Start(i, "removeGroupMessages", [groupId |-> groupId, messageIds |-> messageIds],
          defaultFetcher(authInfo,
              RequestConfig("DELETE", "/messages/v4/groups/{id}/messages", groupId),
              [messageIds |-> messageIds]))

removeReservationToGroup(i, groupId) ==
    Start(i, "removeReservationToGroup", [groupId |-> groupId],
          defaultFetcher(authInfo,
              RequestConfig("DELETE", "/messages/v4/groups/{id}/schedule", groupId), NoBody))

removeGroup(i, groupId) ==
    Start(i, "removeGroup", [groupId |-> groupId],
          defaultFetcher(authInfo,
              RequestConfig("DELETE", "/messages/v4/groups/{id}", groupId), NoBody))

getMessages(i, data) ==
    IF data # Undefined /\ GetMessagesRequestThrows(data)
    THEN Throw(i, "getMessages", [data |-> data], InvalidDateError)
    ELSE LET parameter == IF data # Undefined THEN GetMessagesRequest(data) ELSE EmptyObject
         IN  Start(i, "getMessages", [data |-> data],
                   defaultFetcher(authInfo,
                       [RequestConfig("GET", "/messages/v4/list", NoId) EXCEPT
                           !.url = queryParameterGenerator(@, parameter)],
                       NoBody))

getStatistics(i, data) ==
    IF data # Undefined /\ GetStatisticsRequestThrows(data)
    THEN Throw(i, "getStatistics", [data |-> data], InvalidDateError)
    ELSE LET parameter == IF data # Undefined THEN GetStatisticsRequest(data) ELSE EmptyObject
         IN  Start(i, "getStatistics", [data |-> data],
                   defaultFetcher(authInfo,
                       [RequestConfig("GET", "/messages/v4/statistics", NoId) EXCEPT
                           !.url = queryParameterGenerator(@, parameter)],
                       NoBody))

getBalance(i) ==
    Start(i, "getBalance", NoLocal,
          defaultFetcher(authInfo, RequestConfig("GET", "/cash/v1/balance", NoId), NoBody))

uploadFile(i, fileType, name, link) ==
    /\ pc[i] = "idle"
    /\ op' = [op EXCEPT ![i] = "uploadFile"]
    /\ local' = [local EXCEPT ![i] = [name |-> name, fileType |-> fileType, link |-> link]]
    /\ calls' = [calls EXCEPT ![i] = <<>>]
    /\ pc' = [pc EXCEPT ![i] = "awaitEncode"]
    /\ result' = [result EXCEPT ![i] = PendingResult]
    /\ UNCHANGED authInfo

\* ImageToBase64 resolved: the upload request is sent
ImageEncoded(i) ==
    /\ pc[i] = "awaitEncode"
    /\ calls' = [calls EXCEPT ![i] =
                    <<defaultFetcher(authInfo,
                        RequestConfig("POST", "/storage/v1/files", NoId),
                        [name |-> local[i].name,
                         type |-> local[i].fileType,
                         link |-> local[i].link,
                         file |-> "base64"])>>]
    /\ pc' = [pc EXCEPT ![i] = "awaitFetch"]
    /\ UNCHANGED <<authInfo, op, local, result>>

\* ImageToBase64 rejected
ImageEncodeFailed(i) ==
    /\ pc[i] = "awaitEncode"
    /\ result' = [result EXCEPT ![i] = Rejected([name |-> "ImageToBase64Error"])]
    /\ pc' = [pc EXCEPT ![i] = "done"]
    /\ UNCHANGED <<authInfo, op, local, calls>>

-----------------------------------------------------------------------------
(* Settlement of a single call *)

\* the promise of defaultFetcher is returned as it is
FetchResolved(i) ==
    /\ pc[i] = "awaitFetch"
    /\ op[i] \notin {"send", "createGroup"}
    /\ \E body \in ResponseBodies(op[i]) :
        /\ calls' = [calls EXCEPT ![i] = Settled(@, Ok(body))]
        /\ result' = [result EXCEPT ![i] = Resolved(body)]
    /\ pc' = [pc EXCEPT ![i] = "done"]
    /\ UNCHANGED <<authInfo, op, local>>

\* createGroup: .then(res => res.groupId)
createGroupThen(i) ==
    /\ pc[i] = "awaitFetch"
    /\ op[i] = "createGroup"
    /\ \E body \in ResponseBodies(op[i]) :
        /\ calls' = [calls EXCEPT ![i] = Settled(@, Ok(body))]
        /\ result' = [result EXCEPT ![i] = Resolved(body.groupId)]
    /\ pc' = [pc EXCEPT ![i] = "done"]
    /\ UNCHANGED <<authInfo, op, local>>

\* the test of send's .then: every message of the batch failed to register
AllRejected_never(res) ==
    /\ Len(res.failedMessageList) > 0
    /\ res.groupInfo.count.total < res.groupInfo.count.registeredFailed
AllRejected_anyFailure(res) ==
    Len(res.failedMessageList) > 0
AllRejected(res) ==
    /\ Len(res.failedMessageList) > 0
    /\ res.groupInfo.count.total = res.groupInfo.count.registeredFailed

\* send: .then(res => { if (...) throw new MessageNotReceivedError(...); return res; })
sendThen(i) ==
    /\ pc[i] = "awaitFetch"
    /\ op[i] = "send"
    /\ \E res \in ResponseBodies(op[i]) :
        /\ calls' = [calls EXCEPT ![i] = Settled(@, Ok(res))]
        /\ result' = [result EXCEPT ![i] =
                        IF AllRejected(res)
                        THEN Rejected(MessageNotReceivedError(res.failedMessageList))
                        ELSE Resolved(res)]
    /\ pc' = [pc EXCEPT ![i] = "done"]
    /\ UNCHANGED <<authInfo, op, local>>

\* a failed fetch re-issued instead of surfaced
FetchRejected_retry(i) ==
    /\ pc[i] = "awaitFetch"
    /\ \E e \in HttpErrors :
        calls' = [calls EXCEPT ![i] =
                    Append(Settled(@, Failed(e)), [@[Len(@)] EXCEPT !.res = Pending])]
    /\ Len(calls[i]) < 2
    /\ UNCHANGED <<authInfo, pc, op, local, result>>

\* defaultFetcher rejected: no operation handles the rejection
FetchRejected(i) ==
    /\ pc[i] = "awaitFetch"
    /\ \E e \in HttpErrors :
        /\ calls' = [calls EXCEPT ![i] = Settled(@, Failed(e))]
        /\ result' = [result EXCEPT ![i] = Rejected(e)]
    /\ pc' = [pc EXCEPT ![i] = "done"]
    /\ UNCHANGED <<authInfo, op, local>>

-----------------------------------------------------------------------------
(* sendOneFuture and sendManyFuture *)

FutureOps == {"sendOneFuture", "sendManyFuture"}

StartFuture(i, o, params, allowDuplicates, appId) ==
    /\ pc[i] = "idle"
    /\ op' = [op EXCEPT ![i] = o]
    /\ local' = [local EXCEPT ![i] = params]
    /\ calls' = [calls EXCEPT ![i] = <<createGroupCall(authInfo, allowDuplicates, appId)>>]
    /\ pc' = [pc EXCEPT ![i] = "awaitCreate"]
    /\ result' = [result EXCEPT ![i] = PendingResult]
    /\ UNCHANGED authInfo

\* const groupId = await this.createGroup();
sendOneFuture(i, message, scheduledDate) ==
    StartFuture(i, "sendOneFuture",
                [messages |-> Arr(<<message>>), scheduledDate |-> scheduledDate,
                 groupId |-> NoId],
                Undefined, Undefined)

\* const groupId = await this.createGroup(allowDuplicates, appId);
sendManyFuture(i, messages, scheduledDate, allowDuplicates, appId) ==
    StartFuture(i, "sendManyFuture",
                [allowDuplicates |-> allowDuplicates,
                 appId |-> appId,
                 messages |-> messages,
                 scheduledDate |-> scheduledDate,
                 groupId |-> NoId],
                DefaultParam(allowDuplicates, Bool(FALSE)), appId)

\* the method's local constant groupId
groupIdOf_shared(loc, i) ==
    CHOOSE g \in {loc[j].groupId : j \in {k \in Invocations :
                    "groupId" \in DOMAIN loc[k] /\ loc[k].groupId # NoId}} : TRUE
groupIdOf(loc, i) == loc[i].groupId

\* add and reserve both issued as soon as the group exists
FutureCreated_noAwait(i) ==
    /\ pc[i] = "awaitCreate"
    /\ CanTransfer(local[i].scheduledDate)
    /\ \E body \in GroupMessageResponses :
        /\ local' = [local EXCEPT ![i].groupId = body.groupId]
        /\ calls' = [calls EXCEPT ![i] =
                        Settled(@, Ok(body)) \o
                        <<addMessagesToGroupCall(authInfo, body.groupId, local[i].messages),
                          reserveGroupCall(authInfo, body.groupId,
                              stringDateTransfer(local[i].scheduledDate))>>]
    /\ pc' = [pc EXCEPT ![i] = "awaitReserve"]
    /\ UNCHANGED <<authInfo, op, result>>

\* createGroup resolved: await this.addMessagesToGroup(groupId, messages);
FutureCreated(i) ==
    /\ pc[i] = "awaitCreate"
    /\ \E body \in GroupMessageResponses :
        LET loc == [local EXCEPT ![i].groupId = body.groupId]
        IN  /\ local' = loc
            /\ calls' = [calls EXCEPT ![i] =
                            Append(Settled(@, Ok(body)),
                                addMessagesToGroupCall(authInfo, groupIdOf(loc, i),
                                                       loc[i].messages))]
    /\ pc' = [pc EXCEPT ![i] = "awaitAdd"]
    /\ UNCHANGED <<authInfo, op, result>>

\* addMessagesToGroup resolved: scheduledDate = stringDateTransfer(scheduledDate);
\* return this.reserveGroup(groupId, scheduledDate);
FutureAdded(i) ==
    /\ pc[i] = "awaitAdd"
    /\ \E body \in ResponseBodies("addMessagesToGroup") :
        IF CanTransfer(local[i].scheduledDate)
        THEN /\ local' = [local EXCEPT ![i].scheduledDate = stringDateTransfer(@)]
             /\ calls' = [calls EXCEPT ![i] =
                            Append(Settled(@, Ok(body)),
                                reserveGroupCall(authInfo, groupIdOf(local, i),
                                    stringDateTransfer(local[i].scheduledDate)))]
             /\ pc' = [pc EXCEPT ![i] = "awaitReserve"]
             /\ UNCHANGED result
        ELSE /\ calls' = [calls EXCEPT ![i] = Settled(@, Ok(body))]
             /\ result' = [result EXCEPT ![i] = Rejected(InvalidDateError)]
             /\ pc' = [pc EXCEPT ![i] = "done"]
             /\ UNCHANGED local
    /\ UNCHANGED <<authInfo, op>>

\* reserveGroup resolved: its response is the method's result
FutureReserved(i) ==
    /\ pc[i] = "awaitReserve"
    /\ \E body \in ResponseBodies("reserveGroup") :
        /\ calls' = [calls EXCEPT ![i] = Settled(@, Ok(body))]
        /\ result' = [result EXCEPT ![i] = Resolved(body)]
    /\ pc' = [pc EXCEPT ![i] = "done"]
    /\ UNCHANGED <<authInfo, op, local>>

\* a failed addMessagesToGroup swallowed: the method goes on to reserve
FutureRejected_swallowAdd(i) ==
    /\ pc[i] \in {"awaitCreate", "awaitAdd", "awaitReserve"}
    /\ \E e \in HttpErrors :
        IF pc[i] = "awaitAdd" /\ CanTransfer(local[i].scheduledDate)
        THEN /\ calls' = [calls EXCEPT ![i] =
                            Append(Settled(@, Failed(e)),
                                reserveGroupCall(authInfo, groupIdOf(local, i),
                                    stringDateTransfer(local[i].scheduledDate)))]
             /\ pc' = [pc EXCEPT ![i] = "awaitReserve"]
             /\ UNCHANGED result
        ELSE /\ calls' = [calls EXCEPT ![i] = Settled(@, Failed(e))]
             /\ result' = [result EXCEPT ![i] = Rejected(e)]
             /\ pc' = [pc EXCEPT ![i] = "done"]
    /\ UNCHANGED <<authInfo, op, local>>

\* the awaited step rejected: nothing catches it, the method's promise rejects
FutureRejected(i) ==
    /\ pc[i] \in {"awaitCreate", "awaitAdd", "awaitReserve"}
    /\ \E e \in HttpErrors :
        /\ calls' = [calls EXCEPT ![i] = Settled(@, Failed(e))]
        /\ result' = [result EXCEPT ![i] = Rejected(e)]
    /\ pc' = [pc EXCEPT ![i] = "done"]
    /\ UNCHANGED <<authInfo, op, local>>

-----------------------------------------------------------------------------
(* The caller *)

\* the caller takes the settled promise; the invocation's record is dropped
Return(i) ==
    /\ pc[i] = "done"
    /\ pc' = [pc EXCEPT ![i] = "idle"]
    /\ op' = [op EXCEPT ![i] = "none"]
    /\ local' = [local EXCEPT ![i] = NoLocal]
    /\ calls' = [calls EXCEPT ![i] = <<>>]
    /\ result' = [result EXCEPT ![i] = PendingResult]
    /\ UNCHANGED authInfo

\* new SolapiMessageService(apiKey, apiSecret)
Init ==
    /\ authInfo \in Credentials
    /\ pc = [i \in Invocations |-> "idle"]
    /\ op = [i \in Invocations |-> "none"]
    /\ local = [i \in Invocations |-> NoLocal]
    /\ calls = [i \in Invocations |-> <<>>]
    /\ result = [i \in Invocations |-> PendingResult]

\* nothing is in flight
Quiet == \A j \in Invocations : pc[j] = "idle"

\* a caller that awaits each operation before it calls the next
Next ==
    \E i \in Invocations :
        \/ Quiet /\ \E m \in SendInputs, d \in {Undefined, DateObj(1)},
                       ad \in {Undefined, Bool(TRUE)}, a \in AppIdInputs :
                        send(i, m, d, ad, a)
        \/ Quiet /\ \E a \in AppIdInputs : sendOne(i, Msg("m1"), a)
        \/ Quiet /\ \E ms \in MessageArrays, ad \in AllowDuplicatesInputs, a \in AppIdInputs :
                        sendMany(i, ms, ad, a)
        \/ Quiet /\ \E ad \in AllowDuplicatesInputs, a \in AppIdInputs : createGroup(i, ad, a)
        \/ Quiet /\ \E g \in GroupIds, ms \in MessageArrays : addMessagesToGroup(i, g, ms)
        \/ Quiet /\ \E g \in GroupIds : sendGroup(i, g)
        \/ Quiet /\ \E g \in GroupIds, d \in DateObjects : reserveGroup(i, g, d)
        \/ Quiet /\ \E data \in GetGroupsInputs : getGroups(i, data)
        \/ Quiet /\ \E g \in GroupIds, data \in GetGroupMessagesInputs :
                        getGroupMessages(i, g, data)
        \/ Quiet /\ \E g \in GroupIds, ids \in MessageIdLists : removeGroupMessages(i, g, ids)
        \/ Quiet /\ \E g \in GroupIds : removeReservationToGroup(i, g)
        \/ Quiet /\ \E g \in GroupIds : removeGroup(i, g)
        \/ Quiet /\ \E data \in GetMessagesInputs : getMessages(i, data)
        \/ Quiet /\ \E data \in GetStatisticsInputs : getStatistics(i, data)
        \/ Quiet /\ getBalance(i)
        \/ Quiet /\ \E ft \in FileTypes, n \in {Undefined, Str("name")},
                       l \in {Undefined, Str("link")} : uploadFile(i, ft, n, l)
        \/ Quiet /\ \E d \in DateInputs : sendOneFuture(i, Msg("m1"), d)
        \/ Quiet /\ \E ms \in MessageArrays, d \in DateInputs,
                       ad \in AllowDuplicatesInputs, a \in AppIdInputs :
                        sendManyFuture(i, ms, d, ad, a)
        \/ ImageEncoded(i)
        \/ ImageEncodeFailed(i)
        \/ FetchResolved(i)
        \/ createGroupThen(i)
        \/ sendThen(i)
        \/ FetchRejected(i)
        \/ FutureCreated(i)
        \/ FutureAdded(i)
        \/ FutureReserved(i)
        \/ FutureRejected(i)
        \/ Return(i)

Spec == Init /\ [][Next]_vars

\* the date inputs of concurrently running invocations
ConcDateInputs == {DateStr("bare", 1), MalformedDateStr}

\* a caller that starts scheduled sends without awaiting the ones in flight
NextConc ==
    \E i \in Invocations :
        \/ \E d \in ConcDateInputs : sendOneFuture(i, Msg("m1"), d)
        \/ \E d \in ConcDateInputs :
                sendManyFuture(i, Arr(<<Msg("m1"), Msg("m2")>>), d, Undefined, Undefined)
        \/ FutureCreated(i)
        \/ FutureAdded(i)
        \/ FutureReserved(i)
        \/ FutureRejected(i)
        \/ Return(i)

SpecConc == Init /\ [][NextConc]_vars

-----------------------------------------------------------------------------
(* Properties *)

SingleCallOps ==
    {"sendOne", "sendMany", "createGroup", "addMessagesToGroup", "sendGroup",
     "reserveGroup", "getGroups", "getGroupMessages", "removeGroupMessages",
     "removeReservationToGroup", "removeGroup", "getMessages", "getStatistics",
     "getBalance", "send"}

\* send has had an HTTP-successful response
SendSettled(i) ==
    /\ op[i] = "send"
    /\ pc[i] = "done"
    /\ Len(calls[i]) = 1
    /\ calls[i][1].res.status = "ok"
SendResponse(i) == calls[i][1].res.body
TotalEqualsFailed(res) ==
    res.groupInfo.count.total = res.groupInfo.count.registeredFailed

C2_PartialFailureResolves ==
    \A i \in Invocations :
        /\ SendSettled(i)
        /\ SendResponse(i).groupInfo.count.registeredFailed
            < SendResponse(i).groupInfo.count.total
        => result[i] = Resolved(SendResponse(i))

C2_Witness ==
    \E i \in Invocations :
        /\ SendSettled(i)
        /\ SendResponse(i).groupInfo.count.total = 3
        /\ SendResponse(i).groupInfo.count.registeredFailed = 1
        /\ Len(SendResponse(i).failedMessageList) = 1
        /\ result[i].state = "resolved"
        /\ Len(result[i].value.failedMessageList) = 1

\* the three steps of a scheduled send, in the order the claim gives
FutureSteps ==
    <<[method |-> "POST", path |-> "/messages/v4/groups"],
      [method |-> "PUT", path |-> "/messages/v4/groups/{id}/messages"],
      [method |-> "POST", path |-> "/messages/v4/groups/{id}/schedule"]>>

\* C3: the calls of sendOneFuture/sendManyFuture are a prefix of create, add, reserve;
\* a call is issued only once the one before it has completed; add and reserve carry
\* the group id the create call returned; and a resolved invocation has made exactly
\* the three calls.
C3_ThreeSequentialCalls ==
    \A i \in Invocations :
        op[i] \in FutureOps =>
            /\ Len(calls[i]) <= 3
            /\ \A k \in DOMAIN calls[i] :
                /\ calls[i][k].config.method = FutureSteps[k].method
                /\ calls[i][k].config.url.path = FutureSteps[k].path
                /\ k > 1 =>
                    /\ calls[i][k - 1].res.status = "ok"
                    /\ calls[i][k].config.url.id = calls[i][1].res.body.groupId
            /\ (pc[i] = "done" /\ result[i].state = "resolved") =>
                /\ Len(calls[i]) = 3
                /\ \A k \in DOMAIN calls[i] : calls[i][k].res.status = "ok"

C3_Witness ==
    \E i \in Invocations :
        /\ op[i] = "sendOneFuture"
        /\ pc[i] = "done"
        /\ result[i].state = "resolved"
        /\ Len(calls[i]) = 3
        /\ calls[i][1].res.body.groupId = "G2"
        /\ calls[i][3].config.url.id = "G2"

\* C4: an operation given a date that cannot be normalised rejects without having
\* issued any HTTP request (sendOneFuture, sendManyFuture, getMessages, getStatistics).
C4_RejectsBeforeTransmission ==
    \A i \in Invocations :
        result[i] = Rejected(InvalidDateError) => calls[i] = <<>>

\* C5: in sendOneFuture/sendManyFuture a failed step is the last call made, the
\* invocation is rejected with that step's error, and no removal call is ever issued;
\* when reserve fails after add succeeded, create and add have succeeded and nothing
\* undoes them.
C5_FailedStepEndsSequence ==
    \A i \in Invocations :
        op[i] \in FutureOps =>
            /\ Len(calls[i]) <= 3
            /\ \A k \in DOMAIN calls[i] :
                /\ calls[i][k].config.method # "DELETE"
                /\ calls[i][k].res.status = "error" =>
                    /\ k = Len(calls[i])
                    /\ pc[i] = "done"
                    /\ result[i] = Rejected(calls[i][k].res.error)
            /\ (Len(calls[i]) = 3 /\ calls[i][3].res.status = "error") =>
                /\ calls[i][1].res.status = "ok"
                /\ calls[i][2].res.status = "ok"

C5_Witness ==
    \E i \in Invocations :
        /\ op[i] \in FutureOps
        /\ Len(calls[i]) = 3
        /\ calls[i][2].res.status = "ok"
        /\ calls[i][3].res.status = "error"
        /\ result[i].state = "rejected"

\* the date fields of one outgoing request are ISO-8601 strings
DateFieldsISO(c) ==
    /\ (c.config.method = "POST" /\ c.config.url.path = "/messages/v4/groups/{id}/schedule")
        => IsISO(c.body.scheduledDate)
    /\ \A f \in DateFields \cap DOMAIN c.config.url.query : IsISO(c.config.url.query[f])

\* C6 as stated: every date field of every outgoing request is an ISO-8601 string,
\* getGroups' startDate/endDate included.
C6_Original ==
    \A i \in Invocations : \A k \in DOMAIN calls[i] : DateFieldsISO(calls[i][k])

\* C6 amended: the date fields of the requests of reserveGroup, getMessages and
\* getStatistics are ISO-8601 strings of the instant the caller supplied; getGroups
\* sends startDate/endDate as the caller supplied them.
C6_Amended ==
    \A i \in Invocations : \A k \in DOMAIN calls[i] :
        LET c == calls[i][k]
            q == c.config.url.query
        IN  /\ op[i] # "getGroups" => DateFieldsISO(c)
            /\ (c.config.method = "POST"
                    /\ c.config.url.path = "/messages/v4/groups/{id}/schedule")
                => c.body.scheduledDate.at = local[i].scheduledDate.at
            /\ op[i] \in {"getMessages", "getStatistics", "getGroups"}
                    /\ local[i].data # Undefined
                => \A f \in DateFields \cap DOMAIN local[i].data :
                    IF op[i] = "getGroups"
                    THEN local[i].data[f] # Undefined
                            => f \in DOMAIN q /\ q[f] = local[i].data[f]
                    ELSE f \in DOMAIN q /\ q[f].at = local[i].data[f].at

C6_Witness ==
    \E i \in Invocations :
        /\ op[i] = "getMessages"
        /\ Len(calls[i]) = 1
        /\ local[i].data # Undefined
        /\ local[i].data.dateUpdated = DateStr("bare", 2)
        /\ calls[i][1].config.url.query.dateUpdated = DateStr("iso8601", 2)

\* the add and reserve calls of a scheduled send carry the group id its own create
\* call returned, and every call carries the instance's credentials
OwnGroupIdOnly ==
    \A i \in Invocations :
        op[i] \in FutureOps =>
            \A k \in DOMAIN calls[i] :
                /\ calls[i][k].auth = authInfo
                /\ k > 1 => calls[i][k].config.url.id = calls[i][1].res.body.groupId

\* C7: under every interleaving of scheduled sends on one instance the credentials
\* are never modified, and each invocation's add and reserve calls use only the group
\* id that invocation's own create call returned.
C7_NoSharedState ==
    [][authInfo' = authInfo]_vars /\ []OwnGroupIdOnly

C7_Witness ==
    \E i, j \in Invocations :
        /\ i # j
        /\ op[i] \in FutureOps /\ op[j] \in FutureOps
        /\ Len(calls[i]) = 3 /\ Len(calls[j]) >= 2
        /\ pc[i] = "awaitReserve"
        /\ calls[i][1].res.body.groupId # calls[j][1].res.body.groupId
        /\ calls[i][3].config.url.id = calls[i][1].res.body.groupId
        /\ calls[j][2].config.url.id = calls[j][1].res.body.groupId

\* C8: an invocation of a single-call operation issues at most one HTTP request, and
\* when that request fails the invocation is rejected with that failure.
C8_NoSwallowNoRetry ==
    \A i \in Invocations :
        op[i] \in SingleCallOps =>
            /\ Len(calls[i]) <= 1
            /\ (Len(calls[i]) = 1 /\ calls[i][1].res.status = "error") =>
                /\ pc[i] = "done"
                /\ result[i] = Rejected(calls[i][1].res.error)

C8_Witness ==
    \E i \in Invocations :
        /\ op[i] = "send"
        /\ pc[i] = "done"
        /\ Len(calls[i]) = 1
        /\ calls[i][1].res.status = "error"
        /\ result[i] = Rejected(calls[i][1].res.error)

\* the interface table: the method and path of each operation
InterfaceTable ==
    [send |-> [method |-> "POST", path |-> "/messages/v4/send-many/detail"],
     sendOne |-> [method |-> "POST", path |-> "/messages/v4/send"],
     sendMany |-> [method |-> "POST", path |-> "/messages/v4/send-many"],
     createGroup |-> [method |-> "POST", path |-> "/messages/v4/groups"],
     addMessagesToGroup |-> [method |-> "PUT", path |-> "/messages/v4/groups/{id}/messages"],
     sendGroup |-> [method |-> "POST", path |-> "/messages/v4/groups/{id}/send"],
     reserveGroup |-> [method |-> "POST", path |-> "/messages/v4/groups/{id}/schedule"],
     getGroups |-> [method |-> "GET", path |-> "/messages/v4/groups"],
     getGroupMessages |-> [method |-> "GET", path |-> "/messages/v4/groups/{id}/messages"],
     removeGroupMessages |->
        [method |-> "DELETE", path |-> "/messages/v4/groups/{id}/messages"],
     removeReservationToGroup |->
        [method |-> "DELETE", path |-> "/messages/v4/groups/{id}/schedule"],
     removeGroup |-> [method |-> "DELETE", path |-> "/messages/v4/groups/{id}"],
     getMessages |-> [method |-> "GET", path |-> "/messages/v4/list"],
     getStatistics |-> [method |-> "GET", path |-> "/messages/v4/statistics"],
     getBalance |-> [method |-> "GET", path |-> "/cash/v1/balance"],
     uploadFile |-> [method |-> "POST", path |-> "/storage/v1/files"]]

\* the operation whose row the k-th call of invocation i falls under
RowOf(i, k) ==
    IF op[i] \in FutureOps
    THEN <<"createGroup", "addMessagesToGroup", "reserveGroup">>[k]
    ELSE op[i]

\* the group id the caller passed, if the operation takes one
CallerGroupId(i) ==
    IF op[i] \in FutureOps
    THEN NoId
    ELSE IF "groupId" \in DOMAIN local[i] THEN local[i].groupId ELSE NoId

\* C9: every request is issued with the method and path of its operation's row in
\* the interface table, with the caller's group id in the place of {id}, whatever the
\* body and the earlier calls were.
C9_FixedMethodAndPath ==
    \A i \in Invocations : \A k \in DOMAIN calls[i] :
        /\ calls[i][k].config.method = InterfaceTable[RowOf(i, k)].method
        /\ calls[i][k].config.url.path = InterfaceTable[RowOf(i, k)].path
        /\ calls[i][k].config.url.base = "https://api.solapi.com"
        /\ op[i] \notin FutureOps => calls[i][k].config.url.id = CallerGroupId(i)

C9_Witness ==
    \E i \in Invocations :
        /\ op[i] = "addMessagesToGroup"
        /\ local[i].groupId = "G2"
        /\ Len(calls[i]) = 1
        /\ calls[i][1].config.method = "PUT"
        /\ calls[i][1].config.url.path = "/messages/v4/groups/{id}/messages"
        /\ calls[i][1].config.url.id = "G2"

CallerAppId(i) == IF "appId" \in DOMAIN local[i] THEN local[i].appId ELSE Undefined
CallerAllowDuplicates(i) ==
    IF "allowDuplicates" \in DOMAIN local[i] THEN local[i].allowDuplicates ELSE Undefined

\* C10: the request of sendOne, sendMany and createGroup (the createGroup call of
\* sendManyFuture included) carries an appId only when the caller gave a non-empty one,
\* and allowDuplicates false unless the caller gave a boolean.
C10_AppIdOnlyWhenProvided ==
    \A i \in Invocations :
        (op[i] \in {"sendOne", "sendMany", "createGroup", "sendManyFuture"}
            /\ Len(calls[i]) >= 1) =>
            /\ calls[i][1].body.appId # Str("")
            /\ calls[i][1].body.appId =
                IF Truthy(CallerAppId(i)) THEN CallerAppId(i) ELSE Undefined
            /\ calls[i][1].body.allowDuplicates =
                IF CallerAllowDuplicates(i).t = "boolean"
                THEN CallerAllowDuplicates(i) ELSE Bool(FALSE)

====
